---- MODULE Spec2Model ----
(***************************************************************************)
(* Model of enforce-security-sla-action: Action.Run, fetchRepoAlerts,      *)
(* filterBreachedAlerts and isDisabledError, in the two variants of the    *)
(* program (check run only; pull-request review followed by check run).    *)
(*                                                                         *)
(* Time is counted in hours: a time.Duration and a time.Time are integers  *)
(* (hours, hours since an arbitrary origin).  Day counts are kept far      *)
(* below the int64 overflow of days*24*time.Hour.  Repository owner and    *)
(* name, pull-request number, head SHA and the StartedAt/CompletedAt       *)
(* stamps are passed through to the requests unchanged and are not part    *)
(* of the model.                                                           *)
(***************************************************************************)
EXTENDS Integers, Sequences, FiniteSets, TLC

VARIABLES
    variant,    \* which program: "checkrun" (main.go) or "review" (second file)
    days,       \* Action.Critical / High / Medium / Low (day counts)
    pc,         \* position of Run (or of the filter call)
    alerts,     \* the alert list ([]*Alert)
    sinces,     \* the ages time.Since gave the filter call examined on its own
    breached,   \* the list returned by filterBreachedAlerts
    calls,      \* API calls made so far, in order
    reviews,    \* PullRequestReviewRequests sent
    checkRuns,  \* CreateCheckRunOptions sent
    ret         \* the error value returned by Run

vars == <<variant, days, pc, alerts, sinces, breached, calls, reviews, checkRuns, ret>>

----------------------------------------------------------------------------
\* Bounds

MaxAlerts == 2      \* longest alert list
MaxDays == 0        \* largest day count of a threshold
MaxDrift == 2       \* the clock readings of one call lie within this many hours

\* day counts run from a negative one up; the clock starts at hour 0
Days == (0 - 1) .. MaxDays
ClockReadings == 0 .. MaxDrift

----------------------------------------------------------------------------
\* Program constants

checkRunSuccessTitle == "No security SLA breaches found"
checkRunSuccessText == "All security alerts are within the security SLA."
\* the two format strings, cut at their %d verbs
checkRunFailureTitle == <<"Found ", "%d", " security SLA breaches">>
checkRunFailureText == <<"Found ", "%d", " out of ", "%d", " security alerts breaching security SLA.">>

HoursPerDay == 24

----------------------------------------------------------------------------
\* Thresholds

\* time.Duration(a.X*24) * time.Hour, time.Hour being the unit
Threshold(d) == d * HoursPerDay

criticalThreshold == Threshold(days.Critical)
highThreshold == Threshold(days.High)
mediumThreshold == Threshold(days.Medium)
lowThreshold == Threshold(days.Low)

----------------------------------------------------------------------------
\* Alerts

Tiers == {"critical", "high", "medium", "low"}

\* severities the three sources deliver: a code-scanning rule severity,
\* Dependabot advisory severities (two of them), and the literal "critical"
\* for secrets
SeverityOf(kind) ==
    CASE kind = "CodeScanning" -> {"warning"}
      [] kind = "Dependabot" -> {"high", "low"}
      [] kind = "SecretScanning" -> {"critical"}

Kinds == <<"CodeScanning", "Dependabot", "SecretScanning">>

\* creation times: at hour 0 one hour short of the threshold of -1 day, or
\* of that of 0 days; the clock readings take the age up to and past it
CreatedChoices == {0 - (Threshold(0 - 1) - 1), 0 - (Threshold(0) - 1)}

\* what one API item carries into an Alert
Items(kind) == [Severity : SeverityOf(kind), CreatedAt : CreatedChoices]

\* &Alert{Kind, Severity, Link, CreatedAt}; ptr is the identity of the
\* allocated Alert
NewAlert(kind, item, p) ==
    [ptr |-> p, Kind |-> kind, Severity |-> item.Severity, CreatedAt |-> item.CreatedAt]

\* time.Since(t) at clock reading now
Since(now, t) == now - t

\* the condition of the loop body
BreachesLT(s, cT, hT, mT, lT) == s < cT \/ s < hT \/ s < mT \/ s < lT
BreachesGE(s, cT, hT, mT, lT) == s >= cT \/ s >= hT \/ s >= mT \/ s >= lT
Breaches(s, cT, hT, mT, lT) == s > cT \/ s > hT \/ s > mT \/ s > lT

\* threshold of an alert's own tier
OwnThreshold(a, cT, hT, mT, lT) ==
    CASE a.Severity = "critical" -> cT
      [] a.Severity = "high" -> hT
      [] a.Severity = "medium" -> mT
      [] a.Severity = "low" -> lT

RECURSIVE filterLoop(_, _, _, _, _, _, _, _)
filterLoop(as, nows, i, acc, cT, hT, mT, lT) ==
    IF i > Len(as) THEN acc
    ELSE LET a == as[i]
             s == Since(nows[i], a.CreatedAt)
         IN  filterLoop(as, nows, i + 1,
                        IF Breaches(s, cT, hT, mT, lT) THEN Append(acc, a) ELSE acc,
                        cT, hT, mT, lT)

RECURSIVE filterLoopPrepend(_, _, _, _, _, _, _, _)
filterLoopPrepend(as, nows, i, acc, cT, hT, mT, lT) ==
    IF i > Len(as) THEN acc
    ELSE LET a == as[i]
             s == Since(nows[i], a.CreatedAt)
         IN  filterLoopPrepend(as, nows, i + 1,
                        IF Breaches(s, cT, hT, mT, lT) THEN <<a>> \o acc ELSE acc,
                        cT, hT, mT, lT)

RECURSIVE filterLoopOwn(_, _, _, _, _, _, _, _)
filterLoopOwn(as, nows, i, acc, cT, hT, mT, lT) ==
    IF i > Len(as) THEN acc
    ELSE LET a == as[i]
             s == Since(nows[i], a.CreatedAt)
         IN  filterLoopOwn(as, nows, i + 1,
                        IF a.Severity \in Tiers /\ s > OwnThreshold(a, cT, hT, mT, lT)
                        THEN Append(acc, a) ELSE acc,
                        cT, hT, mT, lT)

\* nows[i] is the clock reading of iteration i
filterBreachedAlertsReversed(as, nows, cT, hT, mT, lT) ==
    filterLoopPrepend(as, nows, 1, <<>>, cT, hT, mT, lT)
filterBreachedAlertsOwnSeverity(as, nows, cT, hT, mT, lT) ==
    filterLoopOwn(as, nows, 1, <<>>, cT, hT, mT, lT)
filterBreachedAlerts(as, nows, cT, hT, mT, lT) ==
    filterLoop(as, nows, 1, <<>>, cT, hT, mT, lT)

\* the ages the loop reads
Readings(as, nows) == [i \in 1..Len(as) |-> Since(nows[i], as[i].CreatedAt)]

----------------------------------------------------------------------------
\* Errors

Nil == [type |-> "nil", Message |-> ""]

\* errors the API client returns: *github.ErrorResponse values with the
\* message of the API, and an error of another type
ApiErrors ==
    { [type |-> "ErrorResponse", Message |-> "Dependabot alerts are disabled for this repository."],
      [type |-> "ErrorResponse", Message |-> "Advanced Security must be enabled for this repository to use code scanning."],
      [type |-> "RateLimitError", Message |-> "API rate limit exceeded, retries disabled"] }

\* errors the two creating calls return
CreateErrors ==
    { [type |-> "ErrorResponse", Message |-> "Resource not accessible by integration"] }

\* strings.Contains
Contains(s, substr) ==
    \E i \in 0..(Len(s) - Len(substr)) : SubSeq(s, i + 1, i + Len(substr)) = substr

isDisabledErrorAnyResponse(err) == err.type = "ErrorResponse"
isDisabledError(err) == err.type = "ErrorResponse" /\ Contains(err.Message, "disabled")

----------------------------------------------------------------------------
\* Formatting

Itoa(n) == ToString(n)

\* fmt.Sprintf for a format cut at its %d verbs
RECURSIVE Sprintf(_, _)
Sprintf(format, args) ==
    IF format = <<>> THEN ""
    ELSE IF Head(format) = "%d"
         THEN Itoa(Head(args)) \o Sprintf(Tail(format), Tail(args))
         ELSE Head(format) \o Sprintf(Tail(format), args)

\* the format string itself, as github.String(format) passes it
RECURSIVE Raw(_)
Raw(format) == IF format = <<>> THEN "" ELSE Head(format) \o Raw(Tail(format))

----------------------------------------------------------------------------
\* The filter on its own: any list of alerts, any four thresholds

DaySets == [Critical : Days, High : Days, Medium : Days, Low : Days]

AllItems ==
    UNION {{[Kind |-> Kinds[k], Severity |-> it.Severity, CreatedAt |-> it.CreatedAt] :
               it \in Items(Kinds[k])} : k \in 1..3}

AlertLists ==
    UNION {{[i \in 1..n |-> NewAlert(f[i].Kind, f[i], i)] : f \in [1..n -> AllItems]} :
              n \in 0..MaxAlerts}

FilterInit ==
    /\ variant = "checkrun"
    /\ days \in DaySets
    /\ pc = "filter_call"
    /\ alerts \in AlertLists
    /\ sinces = <<>>
    /\ breached = <<>>
    /\ calls = <<>>
    /\ reviews = <<>>
    /\ checkRuns = <<>>
    /\ ret = Nil

FilterCall ==
    /\ pc = "filter_call"
    /\ \E nows \in [1..Len(alerts) -> ClockReadings] :
          /\ breached' = filterBreachedAlerts(alerts, nows, criticalThreshold,
                             highThreshold, mediumThreshold, lowThreshold)
          /\ sinces' = Readings(alerts, nows)
    /\ pc' = "filter_return"
    /\ UNCHANGED <<variant, days, alerts, calls, reviews, checkRuns, ret>>

FilterNext == FilterCall

FilterSpec == FilterInit /\ [][FilterNext]_vars

----------------------------------------------------------------------------
\* Run

checkRunName(v) == IF v = "review" THEN "enforce-security-sla-action" ELSE "Security SLA"

\* the options of the two success branches
SuccessOptionsFailureConclusion(v) ==
    [Name |-> checkRunName(v), Status |-> "completed", Conclusion |-> "failure",
     Title |-> checkRunSuccessTitle,
     Summary |-> IF v = "review" THEN Raw(checkRunFailureText) ELSE checkRunSuccessText]
SuccessOptions(v) ==
    [Name |-> checkRunName(v), Status |-> "completed", Conclusion |-> "success",
     Title |-> checkRunSuccessTitle,
     Summary |-> IF v = "review" THEN Raw(checkRunFailureText) ELSE checkRunSuccessText]

\* the options of the failure branch
FailureOptions(v, as, br) ==
    [Name |-> checkRunName(v), Status |-> "completed", Conclusion |-> "failure",
     Title |-> Sprintf(checkRunFailureTitle, <<Len(br)>>),
     Summary |-> Sprintf(checkRunFailureText, <<Len(br), Len(as)>>)]

\* the check run Run creates for the fetched alerts and the breached ones
CheckRunOptionsByTotal(v, as, br) ==
    IF Len(as) = 0 THEN SuccessOptions(v) ELSE FailureOptions(v, as, br)
CheckRunOptions(v, as, br) ==
    IF Len(as) = 0 THEN SuccessOptions(v)
    ELSE IF Len(br) = 0 THEN SuccessOptions(v)
    ELSE FailureOptions(v, as, br)

\* the review Run creates in the review variant
ReviewRequest(as, br) ==
    IF Len(as) = 0 THEN [Event |-> "APPROVE", Body |-> ""]
    ELSE IF Len(br) = 0 THEN [Event |-> "APPROVE", Body |-> ""]
    ELSE [Event |-> "REQUEST_CHANGES",
          Body |-> Sprintf(checkRunFailureText, <<Len(br), Len(as)>>)]

\* where Run goes once the breached alerts are known
AfterEvaluate(v) == IF v = "review" THEN "create_review" ELSE "create_check_run"

\* where Run goes with the error CreateReview returned
AfterCreateReviewIgnoringError(err) == "create_check_run"
AfterCreateReview(err) == IF err # Nil THEN "done" ELSE "create_check_run"

ListApis == <<"CodeScanning.ListAlertsForRepo", "Dependabot.ListRepoAlerts",
              "SecretScanning.ListAlertsForRepo">>
FetchPc == <<"fetch_code_scanning", "fetch_dependabot", "fetch_secret_scanning", "evaluate">>

EventTypes == {"PullRequestEvent", "PullRequestTargetEvent", "PushEvent"}

Init ==
    /\ variant \in {"checkrun", "review"}
    /\ days \in DaySets
    /\ pc = "get_event"
    /\ alerts = <<>>
    /\ sinces = <<>>
    /\ breached = <<>>
    /\ calls = <<>>
    /\ reviews = <<>>
    /\ checkRuns = <<>>
    /\ ret = Nil

\* action.GetEvent and the type switch
GetEvent ==
    /\ pc = "get_event"
    /\ \E ev \in EventTypes \cup {"error"} :
          IF ev = "error"
          THEN /\ ret' = [type |-> "errorString", Message |-> "no event"]
               /\ pc' = "done"
          ELSE IF ev \in {"PullRequestEvent", "PullRequestTargetEvent"}
          THEN /\ ret' = ret
               /\ pc' = FetchPc[1]
          ELSE /\ ret' = [type |-> "errorString",
                          Message |-> "unexpected event type: *github." \o ev]
               /\ pc' = "done"
    /\ UNCHANGED <<variant, days, alerts, sinces, breached, calls, reviews, checkRuns>>

\* what a list call returns: a page of items, or an error and no items
ItemLists(kind, n) == UNION {[1..m -> Items(kind)] : m \in 0..n}
Responses(kind, n) ==
    {[err |-> Nil, items |-> l] : l \in ItemLists(kind, n)}
        \cup {[err |-> e, items |-> <<>>] : e \in ApiErrors}

\* one of the three sections of fetchRepoAlerts: the list call, the error
\* test, and the loop appending the Alerts
FetchSource(k) ==
    /\ pc = FetchPc[k]
    /\ \E resp \in Responses(Kinds[k], MaxAlerts - Len(alerts)) :
          /\ calls' = Append(calls, [api |-> ListApis[k], err |-> resp.err,
                                     n |-> Len(resp.items)])
          /\ IF resp.err # Nil /\ ~isDisabledError(resp.err)
             THEN /\ alerts' = <<>>
                  /\ ret' = resp.err
                  /\ pc' = "done"
             ELSE /\ alerts' = alerts \o
                        [i \in 1..Len(resp.items) |->
                            NewAlert(Kinds[k], resp.items[i], Len(alerts) + i)]
                  /\ ret' = ret
                  /\ pc' = FetchPc[k + 1]
    /\ UNCHANGED <<variant, days, sinces, breached, reviews, checkRuns>>

FetchCodeScanning == FetchSource(1)
FetchDependabot == FetchSource(2)
FetchSecretScanning == FetchSource(3)

\* the len(alerts) == 0 test and the call of filterBreachedAlerts
Evaluate ==
    /\ pc = "evaluate"
    /\ IF Len(alerts) = 0
       THEN UNCHANGED breached
       ELSE \E nows \in [1..Len(alerts) -> ClockReadings] :
               breached' = filterBreachedAlerts(alerts, nows, criticalThreshold,
                               highThreshold, mediumThreshold, lowThreshold)
    /\ pc' = AfterEvaluate(variant)
    /\ UNCHANGED <<variant, days, alerts, sinces, calls, reviews, checkRuns, ret>>

\* ghClient.PullRequests.CreateReview and the test of its error
CreateReview ==
    /\ pc = "create_review"
    /\ \E err \in {Nil} \cup CreateErrors :
          /\ reviews' = Append(reviews, ReviewRequest(alerts, breached))
          /\ calls' = Append(calls, [api |-> "PullRequests.CreateReview", err |-> err, n |-> 0])
          /\ ret' = IF err # Nil THEN err ELSE ret
          /\ pc' = AfterCreateReview(err)
    /\ UNCHANGED <<variant, days, alerts, sinces, breached, checkRuns>>

\* ghClient.Checks.CreateCheckRun; Run returns its error
CreateCheckRun ==
    /\ pc = "create_check_run"
    /\ \E err \in {Nil} \cup CreateErrors :
          /\ checkRuns' = Append(checkRuns, CheckRunOptions(variant, alerts, breached))
          /\ calls' = Append(calls, [api |-> "Checks.CreateCheckRun", err |-> err, n |-> 0])
          /\ ret' = err
          /\ pc' = "done"
    /\ UNCHANGED <<variant, days, alerts, sinces, breached, reviews>>

Next ==
    \/ GetEvent
    \/ FetchCodeScanning
    \/ FetchDependabot
    \/ FetchSecretScanning
    \/ Evaluate
    \/ CreateReview
    \/ CreateCheckRun

Spec == Init /\ [][Next]_vars

----------------------------------------------------------------------------
\* Properties of filterBreachedAlerts (checked under FilterSpec)

Thresholds4 == {criticalThreshold, highThreshold, mediumThreshold, lowThreshold}
MinThreshold == CHOOSE t \in Thresholds4 : \A u \in Thresholds4 : t <= u
MaxThreshold == CHOOSE t \in Thresholds4 : \A u \in Thresholds4 : t >= u

Returned == pc = "filter_return"
Positions == 1..Len(alerts)
InBreached(i) == \E j \in 1..Len(breached) : breached[j] = alerts[i]

\* C1: the filter returns exactly the alerts whose age exceeds at least one
\* of the four thresholds, that is the smallest of them, whatever their
\* severity; two alerts of equal age get the same decision.
C1_AnyThresholdDecides ==
    Returned =>
        /\ \A j \in 1..Len(breached) : \E i \in Positions : breached[j] = alerts[i]
        /\ \A i \in Positions : InBreached(i) <=> (\E t \in Thresholds4 : sinces[i] > t)
        /\ \A i \in Positions : InBreached(i) <=> sinces[i] > MinThreshold
        /\ \A i, k \in Positions :
              sinces[i] = sinces[k] => (InBreached(i) <=> InBreached(k))

\* two alerts of one age and different severities, both returned, one of
\* them within the threshold of its own tier
C1_Witness ==
    /\ Returned
    /\ \E i, k \in Positions :
          /\ sinces[i] = sinces[k]
          /\ alerts[i].Severity # alerts[k].Severity
          /\ InBreached(i) /\ InBreached(k)
          /\ alerts[i].Severity \in Tiers
          /\ sinces[i] <= OwnThreshold(alerts[i], criticalThreshold, highThreshold,
                                       mediumThreshold, lowThreshold)

\* C2: an alert of one of the four tiers is returned if and only if its
\* age exceeds the threshold of its own tier.
C2_OwnTierThreshold ==
    Returned =>
        \A i \in Positions :
            alerts[i].Severity \in Tiers =>
                (InBreached(i) <=>
                    sinces[i] > OwnThreshold(alerts[i], criticalThreshold, highThreshold,
                                             mediumThreshold, lowThreshold))

\* C3: when no alert's age exceeds any of the four thresholds (equality
\* included) the breached list is empty.
C3_AllYoungGivesEmpty ==
    (Returned /\ \A i \in Positions : \A t \in Thresholds4 : sinces[i] <= t)
        => breached = <<>>

\* two alerts, none older than any threshold, one of an age equal to a threshold
C3_Witness ==
    /\ Returned
    /\ Len(alerts) >= 2
    /\ \A i \in Positions : \A t \in Thresholds4 : sinces[i] <= t
    /\ \E i \in Positions : sinces[i] = MinThreshold
    /\ \E i \in Positions : sinces[i] < MinThreshold
    /\ breached = <<>>

\* C4: an alert older than the largest threshold is in the breached list,
\* whatever its severity and whatever else is in the list.
C4_OlderThanMaxIsBreached ==
    Returned => \A i \in Positions : sinces[i] > MaxThreshold => InBreached(i)

\* an alert older than the largest threshold next to one that is not returned
C4_Witness ==
    /\ Returned
    /\ MinThreshold < MaxThreshold
    /\ \E i, k \in Positions :
          /\ sinces[i] > MaxThreshold /\ InBreached(i)
          /\ ~InBreached(k)

IsOrderedSubsequence(sub, seq) ==
    /\ Len(sub) <= Len(seq)
    /\ \E f \in [1..Len(sub) -> 1..Len(seq)] :
          /\ \A j \in 1..Len(sub) : sub[j] = seq[f[j]]
          /\ \A j, k \in 1..Len(sub) : j < k => f[j] < f[k]

\* C10: the call leaves the input list as it was and returns alerts of the
\* input, each position at most once, in the order of the input.
C10_OrderPreservingSubsequence ==
    [][pc = "filter_call" => (alerts' = alerts /\ IsOrderedSubsequence(breached', alerts))]_vars

\* two alerts returned, and differing ones so that their order shows
C10_Witness ==
    /\ Returned
    /\ Len(breached) = 2
    /\ breached[1].Severity # breached[2].Severity
    /\ breached[1].CreatedAt # breached[2].CreatedAt

----------------------------------------------------------------------------
\* Properties of Run (checked under Spec)

IsDisabled(e) == e.type = "ErrorResponse" /\ Contains(e.Message, "disabled")
IsFatal(e) == e # Nil /\ ~IsDisabled(e)
Listed == 1..(IF Len(calls) < 3 THEN Len(calls) ELSE 3)
NoFatal == \A i \in Listed : ~IsFatal(calls[i].err)
CallsOf(api) == {i \in 1..Len(calls) : calls[i].api = api}
ReviewFailed == \E i \in CallsOf("PullRequests.CreateReview") : calls[i].err # Nil
KindCount(kind) == Cardinality({i \in Positions : alerts[i].Kind = kind})

C6_DisabledSkippedOthersFatal ==
    /\ \A i \in 1..Len(calls) :
          (i <= 3 => calls[i].api = ListApis[i])
    /\ pc \in {"evaluate", "create_review", "create_check_run"} => Len(calls) >= 3
    /\ \A i \in Listed :
          LET e == calls[i].err IN
          /\ (e # Nil /\ IsDisabled(e)) =>
                /\ calls[i].n = 0
                /\ KindCount(Kinds[i]) = 0
                /\ Len(calls) = i => (pc = FetchPc[i + 1] \/ pc \in {"create_review", "create_check_run"})
                /\ Len(calls) = i => ret = Nil
          /\ IsFatal(e) =>
                /\ Len(calls) = i
                /\ pc = "done"
                /\ ret = e
                /\ alerts = <<>>
                /\ reviews = <<>> /\ checkRuns = <<>>
    /\ NoFatal => \A i \in Listed : KindCount(Kinds[i]) = calls[i].n

\* the first source disabled, the two others each giving an alert that is kept
C6_Witness ==
    /\ Len(calls) >= 3
    /\ IsDisabled(calls[1].err)
    /\ calls[2].n = 1 /\ calls[3].n = 1
    /\ Len(alerts) = 2
    /\ pc = "done"

\* C7: a check run concludes failure exactly when the breached list is
\* non-empty and success otherwise; a review requests changes exactly when
\* it is non-empty and approves otherwise; the two never disagree.
C7_OutcomeMatchesEvaluation ==
    /\ \A i \in 1..Len(checkRuns) :
          /\ checkRuns[i].Conclusion \in {"success", "failure"}
          /\ checkRuns[i].Conclusion = "failure" <=> Len(breached) > 0
    /\ \A i \in 1..Len(reviews) :
          /\ reviews[i].Event \in {"APPROVE", "REQUEST_CHANGES"}
          /\ reviews[i].Event = "REQUEST_CHANGES" <=> Len(breached) > 0
    /\ \A i \in 1..Len(reviews) : \A j \in 1..Len(checkRuns) :
          reviews[i].Event = "REQUEST_CHANGES" <=> checkRuns[j].Conclusion = "failure"
    /\ variant = "checkrun" => reviews = <<>>

\* a review and a check run created with some, not all, alerts breached
C7_Witness ==
    /\ variant = "review"
    /\ Len(reviews) = 1 /\ Len(checkRuns) = 1
    /\ Len(breached) > 0 /\ Len(breached) < Len(alerts)
    /\ checkRuns[1].Conclusion = "failure"

\* C8: the review comes before the check run; a failed review ends Run with
\* its error and no check run; at most one review and one check run are
\* created, and none before the three sources have been queried.
C8_ReviewThenCheckRun ==
    /\ Cardinality(CallsOf("Checks.CreateCheckRun")) <= 1
    /\ Cardinality(CallsOf("PullRequests.CreateReview")) <= 1
    /\ Len(checkRuns) = Cardinality(CallsOf("Checks.CreateCheckRun"))
    /\ Len(reviews) = Cardinality(CallsOf("PullRequests.CreateReview"))
    /\ \A i \in CallsOf("Checks.CreateCheckRun") \cup CallsOf("PullRequests.CreateReview") :
          /\ i > 3
          /\ \A k \in 1..3 : calls[k].api = ListApis[k]
    /\ variant = "review" =>
          \A i \in CallsOf("Checks.CreateCheckRun") :
              \E j \in CallsOf("PullRequests.CreateReview") : j < i /\ calls[j].err = Nil
    /\ \A j \in CallsOf("PullRequests.CreateReview") :
          calls[j].err # Nil =>
              /\ pc = "done"
              /\ ret = calls[j].err
              /\ Len(calls) = j
              /\ checkRuns = <<>>
    /\ variant = "checkrun" => CallsOf("PullRequests.CreateReview") = {}

\* the review variant has made its five calls
C8_Witness ==
    /\ variant = "review"
    /\ Len(calls) = 5
    /\ calls[4].api = "PullRequests.CreateReview"
    /\ calls[5].api = "Checks.CreateCheckRun"

\* C9: a success check run carries the success title and the success
\* summary, never the failure summary text; a failure check run carries the
\* failure title and summary with the breached and total counts.
C9_TitleAndSummaryMatchConclusion ==
    \A i \in 1..Len(checkRuns) :
        LET c == checkRuns[i] IN
        /\ c.Conclusion = "success" =>
              /\ c.Title = "No security SLA breaches found"
              /\ c.Summary = "All security alerts are within the security SLA."
        /\ c.Conclusion = "failure" =>
              /\ c.Title = "Found " \o ToString(Len(breached)) \o " security SLA breaches"
              /\ c.Summary = "Found " \o ToString(Len(breached)) \o " out of "
                                \o ToString(Len(alerts))
                                \o " security alerts breaching security SLA."

====
